---- MODULE Spec2Model ----
(***************************************************************************)
(* Model of the image OCR pipeline of ImageOCR:                            *)
(*   utils/file_handler.py   extract_text (image branch), ocr_cache        *)
(*   core/ocr_engine.py      run_paddle_ocr                                 *)
(*   core/preprocess.py      super_resolve, validate and its three checks   *)
(*   core/tesseract_fallback.py  run_tesseract_on_low_conf, postprocess_text*)
(*                                                                         *)
(* Text is a sequence of one-character strings.  A confidence is an        *)
(* integer number of millionths (0.75 is 750000).  An image is the record  *)
(* of the quantities the code reads from its pixels: height, channel       *)
(* count, focus measure (variance of the Laplacian) and grayscale range.   *)
(***************************************************************************)
EXTENDS Integers, Sequences, FiniteSets, TLC

\* ------------------------------------------------------------------ bounds
\* Most regions the primary engine reports for one image.
MaxLines == 2
\* Most extract_text calls in one behaviour.
MaxCalls == 2

\* ------------------------------------------------------- program constants
\* detect_blur(image, threshold=100.0)
BLUR_THRESHOLD == 100
\* is_low_contrast(image, threshold=15.0)
CONTRAST_THRESHOLD == 15
\* is_low_resolution(img, min_height=500)
MIN_HEIGHT == 500
\* sr.setModel("fsrcnn", 4)
SR_SCALE == 4
\* CONFIDENCE_THRESHOLD = 0.75, in millionths
CONFIDENCE_THRESHOLD == 750000
\* similarity >= 0.85, in hundredths
SIMILARITY_PCT == 85
\* len(t_text) > len(text) + 3
LENGTH_MARGIN == 3
\* cropped.shape[0] < 5 or cropped.shape[1] < 5
MIN_CROP == 5

\* ------------------------------------------------------------------ text
NL == "\n"

IsSpace(c) == c \in {" ", NL, "\t"}

RECURSIVE lstrip(_)
lstrip(s) ==
    IF s # <<>> /\ IsSpace(Head(s)) THEN lstrip(Tail(s)) ELSE s

RECURSIVE rstrip(_)
rstrip(s) ==
    IF s # <<>> /\ IsSpace(s[Len(s)]) THEN rstrip(SubSeq(s, 1, Len(s) - 1)) ELSE s

\* str.strip()
strip(s) == rstrip(lstrip(s))

StartsWith(s, p) == Len(p) <= Len(s) /\ SubSeq(s, 1, Len(p)) = p

\* str.replace(old, new): leftmost non-overlapping occurrences, old non-empty
RECURSIVE replace(_, _, _)
replace(s, old, new) ==
    IF s = <<>> THEN <<>>
    ELSE IF StartsWith(s, old)
         THEN new \o replace(SubSeq(s, Len(old) + 1, Len(s)), old, new)
         ELSE <<Head(s)>> \o replace(Tail(s), old, new)

\* "\n".join(lines)
RECURSIVE join(_)
join(lines) ==
    IF lines = <<>> THEN <<>>
    ELSE IF Len(lines) = 1 THEN lines[1]
    ELSE lines[1] \o <<NL>> \o join(Tail(lines))

\* str.splitlines() over the alphabet of the model, whose only line
\* boundary is "\n": no empty last line after a trailing newline
RECURSIVE splitFrom(_, _)
splitFrom(s, cur) ==
    IF s = <<>> THEN (IF cur = <<>> THEN <<>> ELSE <<cur>>)
    ELSE IF Head(s) = NL THEN <<cur>> \o splitFrom(Tail(s), <<>>)
    ELSE splitFrom(Tail(s), Append(cur, Head(s)))

splitlines(s) == splitFrom(s, <<>>)

Max2(a, b) == IF a >= b THEN a ELSE b

\* one row of the edit-distance table: cur holds the columns done so far,
\* prev the row above; column j is at index j + 1
RECURSIVE lcsRow(_, _, _, _)
lcsRow(x, b, prev, cur) ==
    IF Len(cur) = Len(b) + 1 THEN cur
    ELSE LET j == Len(cur)
         IN  lcsRow(x, b, prev,
                    Append(cur, IF x = b[j] THEN prev[j] + 1
                                ELSE Max2(prev[j + 1], cur[j])))

RECURSIVE lcsRows(_, _, _)
lcsRows(a, b, prev) ==
    IF a = <<>> THEN prev[Len(b) + 1]
    ELSE lcsRows(Tail(a), b, lcsRow(Head(a), b, prev, <<0>>))

\* length of a longest common subsequence
lcs(a, b) == lcsRows(a, b, [j \in 1..(Len(b) + 1) |-> 0])

\* Levenshtein.ratio(a, b) = (lensum - ldist) / lensum with substitutions
\* costing 2, that is 2 * lcs / lensum, kept as the fraction num / den;
\* two empty strings give 1.0
lev_ratio(a, b) ==
    IF Len(a) + Len(b) = 0 THEN [num |-> 1, den |-> 1]
    ELSE [num |-> 2 * lcs(a, b), den |-> Len(a) + Len(b)]

\* the threshold of the confidence test used for the similarity test
SimilarEnough_075(r) == 100 * r.num >= 75 * r.den

\* ratio >= 0.85
SimilarEnough(r) == 100 * r.num >= SIMILARITY_PCT * r.den


\* ---------------------------------------------------------------- images
\* An image: height in pixels, number of channels (0 for a 2-D array),
\* focus measure and grayscale range (max - min, an 8-bit difference).
Image(h, ch, fm, rng) == [h |-> h, ch |-> ch, fm |-> fm, rng |-> rng]

NoImage == Image(0, 0, 0, 0)

\* A message: its text, the number formatted into it and the exception
\* detail appended to it.
Msg(text) == [text |-> text, num |-> -1, detail |-> ""]

MsgBlurry(fm) ==
    [text |-> "The image is blurry (focus measure = %.2f)", num |-> fm, detail |-> ""]

MsgOcrFailed(e) == [text |-> "OCR failed: ", num |-> -1, detail |-> e]

NoMsg == Msg("")

\* cv2.cvtColor(image, cv2.COLOR_BGR2GRAY) accepts 3 or 4 channels
CvtColorRaises(image) == image.ch \notin {3, 4}

\* detect_blur with the threshold itself counted as blurry
detect_blur_inclusive(image) == image.fm <= BLUR_THRESHOLD

\* detect_blur: (laplacian_var < threshold, laplacian_var)
detect_blur(image) == image.fm < BLUR_THRESHOLD

\* is_low_contrast: (max_value - min_value) < threshold
is_low_contrast(image) == image.rng < CONTRAST_THRESHOLD

\* is_low_resolution: img.shape[0] < min_height
is_low_resolution(image) == image.h < MIN_HEIGHT

\* validate with the resolution check moved to the front
validate_resolution_first(image) ==
    IF CvtColorRaises(image)
    THEN [raised |-> TRUE, valid |-> FALSE, msg |-> NoMsg, checks |-> <<"blur">>]
    ELSE IF is_low_resolution(image)
    THEN [raised |-> FALSE, valid |-> FALSE,
          msg |-> Msg("Please upload an image with higher resolution"),
          checks |-> <<"resolution">>]
    ELSE IF detect_blur(image)
    THEN [raised |-> FALSE, valid |-> FALSE, msg |-> MsgBlurry(image.fm),
          checks |-> <<"resolution", "blur">>]
    ELSE IF is_low_contrast(image)
    THEN [raised |-> FALSE, valid |-> FALSE, msg |-> Msg("The image has low contrast"),
          checks |-> <<"resolution", "blur", "contrast">>]
    ELSE [raised |-> FALSE, valid |-> TRUE, msg |-> Msg("Image quality is good"),
          checks |-> <<"resolution", "blur", "contrast">>]

\* validate: the verdict, its message, the checks evaluated in order, and
\* whether the grayscale conversion of the first check raised
validate(image) ==
    IF CvtColorRaises(image)
    THEN [raised |-> TRUE, valid |-> FALSE, msg |-> NoMsg, checks |-> <<"blur">>]
    ELSE IF detect_blur(image)
    THEN [raised |-> FALSE, valid |-> FALSE, msg |-> MsgBlurry(image.fm),
          checks |-> <<"blur">>]
    ELSE IF is_low_contrast(image)
    THEN [raised |-> FALSE, valid |-> FALSE, msg |-> Msg("The image has low contrast"),
          checks |-> <<"blur", "contrast">>]
    ELSE IF is_low_resolution(image)
    THEN [raised |-> FALSE, valid |-> FALSE,
          msg |-> Msg("Please upload an image with higher resolution"),
          checks |-> <<"blur", "contrast", "resolution">>]
    ELSE [raised |-> FALSE, valid |-> TRUE, msg |-> Msg("Image quality is good"),
          checks |-> <<"blur", "contrast", "resolution">>]

NoVerdict == [raised |-> FALSE, valid |-> FALSE, msg |-> NoMsg, checks |-> <<>>]

\* sr.upsample(img): four times the height, same channels; the pixel values,
\* hence focus measure and range, are the network's
Upsampled(image, fm, rng) == Image(SR_SCALE * image.h, image.ch, fm, rng)


\* preprocess_image returns the binarized image `thresh`: a 2-D array of
\* the height of its input; it starts with ensure_bgr
preprocess_image(image) == [h |-> image.h, ch |-> 0]

\* deskew_image: warpAffine to the same (w, h), or the image itself
deskew_image(image) == image

\* ensure_bgr: raise ValueError(f"Unsupported image format: ...") for a
\* channel count that is none of 2-D (0), 1, 3, 4
EnsureBgrRaises(image) == image.ch \notin {0, 1, 3, 4}

\* ensure_bgr that passes a 4-channel image on as it is
ensure_bgr_keeps_alpha(image) == IF image.ch = 4 THEN image ELSE [image EXCEPT !.ch = 3]

\* ensure_bgr on a 2-D, 1-, 3- or 4-channel image
ensure_bgr(image) == [image EXCEPT !.ch = 3]

NoInput == [h |-> 0, ch |-> 0]

\* --------------------------------------------------------- reconciliation
S_I1em == <<"I", "1", "e", "m">>
S_Item == <<"I", "t", "e", "m">>
S_DollarSpace == <<"$", " ">>
S_Dollar == <<"$">>
S_SpaceDashSpace == <<" ", "-", " ">>
S_Dash == <<"-">>

\* the loop body without its "$ " rule
clean_line_without_dollar_rule(line) ==
    strip(replace(replace(line, S_I1em, S_Item), S_SpaceDashSpace, S_Dash))

\* the loop body with the " - " rule ahead of the "$ " rule
clean_line_dash_first(line) ==
    strip(replace(replace(replace(line, S_I1em, S_Item), S_SpaceDashSpace, S_Dash),
                  S_DollarSpace, S_Dollar))

\* the loop body without txt.strip()
clean_line_unstripped(line) ==
    replace(replace(replace(line, S_I1em, S_Item), S_DollarSpace, S_Dollar),
            S_SpaceDashSpace, S_Dash)

\* the body of the loop of postprocess_text, up to txt.strip()
clean_line(line) ==
    strip(replace(replace(replace(line, S_I1em, S_Item), S_DollarSpace, S_Dollar),
                  S_SpaceDashSpace, S_Dash))

\* postprocess_text without its `if txt` filter
RECURSIVE postprocess_text_unfiltered(_)
postprocess_text_unfiltered(lines) ==
    IF lines = <<>> THEN <<>>
    ELSE <<clean_line(Head(lines))>> \o postprocess_text_unfiltered(Tail(lines))

\* postprocess_text: cleaned lines, the empty ones left out
RECURSIVE postprocess_text(_)
postprocess_text(lines) ==
    IF lines = <<>> THEN <<>>
    ELSE LET txt == clean_line(Head(lines))
         IN  (IF txt # <<>> THEN <<txt>> ELSE <<>>) \o postprocess_text(Tail(lines))

\* similarity = lev_ratio(t_text, text) if t_text else 0
similarity(t_text, text) ==
    IF t_text # <<>> THEN lev_ratio(t_text, text) ELSE [num |-> 0, den |-> 1]

\* choose_text with the length rule at "at least 3 longer"
choose_text_margin_inclusive(text, t_text) ==
    IF t_text # <<>>
       /\ (SimilarEnough(similarity(t_text, text))
           \/ Len(t_text) >= Len(text) + LENGTH_MARGIN)
    THEN t_text
    ELSE text

\* the text run_tesseract_on_low_conf keeps for a contested line, given the
\* stripped output t_text of the fallback engine
choose_text(text, t_text) ==
    IF t_text # <<>>
       /\ (SimilarEnough(similarity(t_text, text))
           \/ Len(t_text) > Len(text) + LENGTH_MARGIN)
    THEN t_text
    ELSE text

\* conf >= CONFIDENCE_THRESHOLD: the line is kept as it is
high_confidence(conf) == conf >= CONFIDENCE_THRESHOLD

\* extract_text, step 4: first occurrences of the stripped non-empty lines
RECURSIVE dedupe(_, _)
dedupe(lines, seen) ==
    IF lines = <<>> THEN <<>>
    ELSE LET clean == strip(Head(lines))
         IN  IF clean # <<>> /\ clean \notin seen
             THEN <<clean>> \o dedupe(Tail(lines), seen \cup {clean})
             ELSE dedupe(Tail(lines), seen)

\* the loop of extract_text without its `not in seen` test
RECURSIVE nonempty_stripped(_)
nonempty_stripped(lines) ==
    IF lines = <<>> THEN <<>>
    ELSE (IF strip(Head(lines)) # <<>> THEN <<strip(Head(lines))>> ELSE <<>>)
         \o nonempty_stripped(Tail(lines))

combine_keeps_repeats(tess_text) == join(nonempty_stripped(splitlines(tess_text)))

combine(tess_text) == join(dedupe(splitlines(tess_text), {}))

\* the loop without its size filter
crop_kept_any(region) == TRUE

\* the size filter of run_paddle_ocr on a region's crop
crop_kept(region) == ~(region.ch * region.cw = 0 \/ region.ch < MIN_CROP \/ region.cw < MIN_CROP)

\* paddle_lines: the kept regions in engine order, text stripped
RECURSIVE to_paddle_lines(_)
to_paddle_lines(regions) ==
    IF regions = <<>> THEN <<>>
    ELSE (IF crop_kept(Head(regions))
          THEN <<[text |-> strip(Head(regions).text), conf |-> Head(regions).conf]>>
          ELSE <<>>) \o to_paddle_lines(Tail(regions))


\* ----------------------------------------------------------------- inputs
\* Uploaded contents: the digest of the bytes, whether PIL can open them,
\* and the measures of the decoded picture.
Content(md5, ok, mode, h, fm, rng) ==
    [md5 |-> md5, ok |-> ok, mode |-> mode, h |-> h, fm |-> fm, rng |-> rng]

Contents ==
    { Content("d1", TRUE, "RGB", 600, 150, 200),
      Content("d2", TRUE, "L", 50, 0, 0),
      Content("d3", TRUE, "RGBA", 125, 150, 200),
      Content("d4", FALSE, "", 0, 0, 0) }

Filenames == {"scan.png", "photo.JPG"}

\* file.filename.split(".")[-1].lower()
Ext(filename) ==
    CASE filename = "scan.png" -> "png"
      [] filename = "photo.JPG" -> "jpg"
      [] OTHER -> ""

image_exts == {"png", "jpg", "jpeg", "tiff", "bmp", "gif", "webp"}

\* hashlib.md5(content).hexdigest()
get_image_hash(content) == content.md5

\* np.array(Image.open(io.BytesIO(img_bytes)).convert("RGB"))
img_np(content) == Image(content.h, 3, content.fm, content.rng)

\* what the super-resolution network may make of the pixel values
SRFocus == {99, 150}
SRRange == {14, 200}

\* what the primary engine may report for a region
T_a == <<"a">>
T_space == <<" ">>
T_ab == <<"a", "b">>
T_abcde == <<"a", "b", "c", "d", "e">>
T_Itern5 == <<"I", "t", "e", "r", "n", " ", "5">>
T_Item5 == <<"I", "t", "e", "m", " ", "5">>
T_ItemS == <<"I", "t", "e", "m", " ", "S">>
T_Item50 == <<"I", "t", "e", "m", " ", "5", "0">>
T_Total40 == <<"T", "o", "t", "a", "l", ":", " ", "$", "4", "0">>
T_Dollar4 == <<"$", " ", "4">>

Region(text, conf, ch, cw) == [text |-> text, conf |-> conf, ch |-> ch, cw |-> cw]

\* confidences on both sides of the threshold, crops on both sides of the
\* size floor, a text that is blank after strip
Regions ==
    { Region(T_a, 750000, 5, 5),
      Region(T_a, 749999, 5, 5),
      Region(T_space, 750000, 5, 5),
      Region(T_a, 750000, 4, 9) }

RECURSIVE SeqsUpTo(_, _)
SeqsUpTo(S, n) ==
    IF n = 0 THEN {<<>>}
    ELSE LET shorter == SeqsUpTo(S, n - 1)
         IN  shorter \cup {Append(q, x) : q \in {r \in shorter : Len(r) = n - 1}, x \in S}

\* what pytesseract.image_to_string may return for a crop
T_Item5NL == <<"I", "t", "e", "m", " ", "5", NL>>
T_ab_cde == <<"a", "b", NL, "c", "d", "e">>

FallbackOutputs == {<<>>, T_Item5NL, T_abcde, T_ab_cde}

\* ------------------------------------------------------------------ state
VARIABLES
    ocr_cache,       \* file_handler.ocr_cache: digest -> final text
    calls,           \* extract_text calls begun
    pc,              \* where the current call stands
    file,            \* the upload of the current call: filename and content
    opts,            \* run_paddle_ocr's use_superres, use_deskew, debug
    img,             \* run_paddle_ocr's img up to the quality gate
    validated,       \* the image validate was given in this call
    verdict,         \* what validate returned in this call
    ocr_input,       \* the image handed to the primary engine
    ocr_calls,       \* primary engine invocations in this call
    paddle_lines,    \* run_paddle_ocr's result["lines"]
    idx,             \* the line run_tesseract_on_low_conf is at
    merged_lines,    \* run_tesseract_on_low_conf's merged_lines
    tess_log,        \* per line reached: was the fallback engine called, what it gave
    tesseract_text,  \* run_tesseract_on_low_conf's result["lines"]
    result,          \* what extract_text returned
    extracted,       \* history: the extractions that ended at the cache write
    exc,             \* history: the callee whose exception ended this call
    files,           \* the working directory: path -> digest of the image written
    threads,         \* concurrent extract_text invocations, each with its locals
    passes,          \* what successive postprocess_text calls returned
    results          \* run_paddle_ocr's results[0] while its loop runs

vars ==
    << ocr_cache, calls, pc, file, opts, img, validated, verdict, ocr_input,
       ocr_calls, paddle_lines, idx, merged_lines, tess_log, tesseract_text, result,
       extracted, exc, files, threads, passes, results >>

DictResult(success, message, text) ==
    [kind |-> "dict", success |-> success, message |-> message, text |-> text]

\* the fall-through `return text` of extract_text
StrResult(text) ==
    [kind |-> "str", success |-> FALSE, message |-> NoMsg, text |-> text]

NoResult == [kind |-> "none", success |-> FALSE, message |-> NoMsg, text |-> <<>>]

NoFile == [filename |-> "", content |-> Content("", FALSE, "", 0, 0, 0)]

DefaultOpts == [use_superres |-> TRUE, use_deskew |-> TRUE, debug |-> TRUE]

\* a tess_log entry
Logged(called, raised, t_text) ==
    [called |-> called, raised |-> raised, t_text |-> t_text]

CallLocals ==
    /\ img = NoImage
    /\ validated = NoImage
    /\ verdict = NoVerdict
    /\ ocr_input = NoInput
    /\ ocr_calls = 0
    /\ paddle_lines = <<>>
    /\ idx = 0
    /\ merged_lines = <<>>
    /\ tess_log = <<>>
    /\ tesseract_text = <<>>
    /\ result = NoResult
    /\ exc = ""

NoFiles == [p \in {} |-> ""]

Init ==
    /\ ocr_cache = [k \in {} |-> <<>>]
    /\ extracted = {}
    /\ files = NoFiles
    /\ threads = <<>>
    /\ passes = <<>>
    /\ results = <<>>
    /\ calls = 0
    /\ pc = "idle"
    /\ file = NoFile
    /\ opts = DefaultOpts
    /\ CallLocals


\* ------------------------------------------------- extract_text, image branch
\* extract_text is entered: ext, content = await file.read(), text = ""
Call ==
    /\ pc \in {"idle", "done"}
    /\ calls < MaxCalls
    /\ \E f \in Filenames, c \in Contents :
          /\ Ext(f) \in image_exts
          /\ file' = [filename |-> f, content |-> c]
    /\ calls' = calls + 1
    /\ pc' = "lookup"
    /\ img' = NoImage
    /\ validated' = NoImage
    /\ verdict' = NoVerdict
    /\ ocr_input' = NoInput
    /\ ocr_calls' = 0
    /\ paddle_lines' = <<>>
    /\ idx' = 0
    /\ merged_lines' = <<>>
    /\ tess_log' = <<>>
    /\ tesseract_text' = <<>>
    /\ result' = NoResult
    /\ exc' = ""
    /\ UNCHANGED <<ocr_cache, opts, extracted, files, threads, passes, results>>

\* a key taken from the name of the upload
image_hash_of_name == get_image_hash([md5 |-> file.filename])

\* image_hash = get_image_hash(img_bytes), img_bytes = content
image_hash == get_image_hash(file.content)

\* if image_hash in ocr_cache: return the cached text
CacheHit ==
    /\ pc = "lookup"
    /\ image_hash \in DOMAIN ocr_cache
    /\ result' = DictResult(TRUE, Msg("Text extracted successfully"),
                            ocr_cache[image_hash])
    /\ pc' = "done"
    /\ UNCHANGED <<ocr_cache, calls, file, opts, img, validated, verdict, ocr_input,
                   ocr_calls, paddle_lines, idx, merged_lines, tess_log, tesseract_text,
                   extracted, exc, files, threads, passes, results>>

\* Image.open(...).convert("RGB"); bytes PIL cannot open raise, and the
\* except clause of extract_text ends the call with `return text`, text = ""
OpenImage ==
    /\ pc = "lookup"
    /\ image_hash \notin DOMAIN ocr_cache
    /\ IF file.content.ok
       THEN /\ img' = img_np(file.content)
            /\ pc' = "superres"
            /\ UNCHANGED <<result, exc>>
       ELSE /\ result' = StrResult(<<>>)
            /\ exc' = "Image.open"
            /\ pc' = "done"
            /\ UNCHANGED img
    /\ UNCHANGED <<ocr_cache, calls, file, opts, validated, verdict, ocr_input,
                   ocr_calls, paddle_lines, idx, merged_lines, tess_log, tesseract_text,
                   extracted, files, threads, passes, results>>

\* ----------------------------------------------------------- run_paddle_ocr
\* if use_superres: img = super_resolve(img); super_resolve returns its
\* argument when the model cannot be loaded or run
SuperResolve ==
    /\ pc = "superres"
    /\ IF opts.use_superres
       THEN \/ img' = img
            \/ \E fm \in SRFocus, rng \in SRRange : img' = Upsampled(img, fm, rng)
       ELSE img' = img
    /\ pc' = "validate"
    /\ UNCHANGED <<ocr_cache, calls, file, opts, validated, verdict, ocr_input,
                   ocr_calls, paddle_lines, idx, merged_lines, tess_log, tesseract_text,
                   result,
                   extracted, exc, files, threads, passes, results>>

\* the gate without its early return
gate_open_always(v) == TRUE

\* if not valid: return, the engines not reached
gate_open(v) == v.valid

\* valid, msg = validate(img); a rejection ends run_paddle_ocr with
\* success False and msg, which extract_text passes on with text ""; an
\* exception in validate ends it with "OCR failed: ..."
Validate ==
    /\ pc = "validate"
    /\ validated' = img
    /\ verdict' = validate(img)
    /\ IF validate(img).raised
       THEN /\ result' = DictResult(FALSE, MsgOcrFailed("cvtColor"), <<>>)
            /\ exc' = "validate"
            /\ pc' = "done"
       ELSE IF ~gate_open(validate(img))
       THEN /\ result' = DictResult(FALSE, validate(img).msg, <<>>)
            /\ pc' = "done"
            /\ UNCHANGED exc
       ELSE /\ pc' = "normalize"
            /\ UNCHANGED <<result, exc>>
    /\ UNCHANGED <<ocr_cache, calls, file, opts, img, ocr_input, ocr_calls,
                   paddle_lines, idx, merged_lines, tess_log, tesseract_text,
                   extracted, files, threads, passes, results>>

\* the calls of preprocess_image, in its order: channel normalization,
\* background flattening, deblurring, denoising, illumination correction
\* (morphologyEx, divide), sharpening, binarization, polarity correction
PreprocessSteps ==
    << "ensure_bgr", "force_white_background", "conditional_deblur",
       "fastNlMeansDenoising", "divide", "filter2D", "adaptiveThreshold",
       "bitwise_not" >>

\* the images preprocess_image writes into the working directory
DebugFiles == {"1_gray.png", "2_norm.png", "3_sharp.png", "4_thresh.png"}

\* cv2.imwrite("1_gray.png", gray) ... cv2.imwrite("4_thresh.png", thresh)
imwrite(fs, digest) ==
    [p \in DOMAIN fs \cup DebugFiles |-> IF p \in DebugFiles THEN digest ELSE fs[p]]

\* img = preprocess_image(img); if use_deskew: deskew_image; ensure_bgr.
\* preprocess_image writes its debug images when debug is set, and when it
\* inverts the binarized image; deskew_image catches what its own steps
\* raise and returns its argument.
Normalize ==
    /\ pc = "normalize"
    /\ IF opts.debug
       THEN files' = imwrite(files, file.content.md5)
       ELSE files' \in {files, imwrite(files, file.content.md5)}
    /\ ocr_input' = ensure_bgr(IF opts.use_deskew
                               THEN deskew_image(preprocess_image(img))
                               ELSE preprocess_image(img))
    /\ pc' = "ocr"
    /\ UNCHANGED <<ocr_cache, calls, file, opts, img, validated, verdict, ocr_calls,
                   paddle_lines, idx, merged_lines, tess_log, tesseract_text, result,
                   extracted, exc, threads, passes, results>>

\* a call inside preprocess_image raises: preprocess_image has no handler,
\* the except clause of run_paddle_ocr ends the call with "OCR failed: ..."
NormalizeRaises ==
    /\ pc = "normalize"
    /\ \E k \in 1..Len(PreprocessSteps) :
          /\ exc' = PreprocessSteps[k]
          /\ result' = DictResult(FALSE, MsgOcrFailed(PreprocessSteps[k]), <<>>)
    /\ pc' = "done"
    /\ UNCHANGED <<ocr_cache, calls, file, opts, img, validated, verdict, ocr_input,
                   ocr_calls, paddle_lines, idx, merged_lines, tess_log, tesseract_text,
                   extracted, files, threads, passes, results>>

\* a primary engine failure that nothing in run_paddle_ocr catches
OcrRaises_uncaught ==
    /\ pc = "ocr"
    /\ ocr_calls' = ocr_calls + 1
    /\ result' = StrResult(<<>>)
    /\ exc' = "ocr.ocr"
    /\ pc' = "done"
    /\ UNCHANGED <<ocr_cache, calls, file, opts, img, validated, verdict, ocr_input,
                   paddle_lines, idx, merged_lines, tess_log, tesseract_text,
                   extracted, files, threads, passes, results>>

\* ocr.ocr(img, cls=True) raises: "OCR failed: ..."
OcrRaises ==
    /\ pc = "ocr"
    /\ ocr_calls' = ocr_calls + 1
    /\ result' = DictResult(FALSE, MsgOcrFailed("engine"), <<>>)
    /\ exc' = "ocr.ocr"
    /\ pc' = "done"
    /\ UNCHANGED <<ocr_cache, calls, file, opts, img, validated, verdict, ocr_input,
                   paddle_lines, idx, merged_lines, tess_log, tesseract_text,
                   extracted, files, threads, passes, results>>

\* ocr.ocr(img, cls=True) returns its regions, which are cropped and filtered
OcrReturns ==
    /\ pc = "ocr"
    /\ ocr_calls' = ocr_calls + 1
    /\ \E regions \in SeqsUpTo(Regions, MaxLines) :
          IF regions = <<>>
          THEN /\ result' = DictResult(FALSE, Msg("No text detected"), <<>>)
               /\ pc' = "done"
               /\ UNCHANGED <<paddle_lines, idx>>
          ELSE IF to_paddle_lines(regions) = <<>>
          THEN /\ result' = DictResult(FALSE, Msg("No valid text found"), <<>>)
               /\ pc' = "done"
               /\ UNCHANGED <<paddle_lines, idx>>
          ELSE /\ paddle_lines' = to_paddle_lines(regions)
               /\ idx' = 1
               /\ pc' = "tess"
               /\ UNCHANGED result
    /\ UNCHANGED <<ocr_cache, calls, file, opts, img, validated, verdict, ocr_input,
                   merged_lines, tess_log, tesseract_text,
                   extracted, exc, files, threads, passes, results>>

\* ------------------------------------------------ run_tesseract_on_low_conf
\* if conf >= CONFIDENCE_THRESHOLD: merged_lines.append(text); continue
TessKeep ==
    /\ pc = "tess"
    /\ idx <= Len(paddle_lines)
    /\ high_confidence(paddle_lines[idx].conf)
    /\ merged_lines' = Append(merged_lines, paddle_lines[idx].text)
    /\ tess_log' = Append(tess_log, Logged(FALSE, FALSE, <<>>))
    /\ idx' = idx + 1
    /\ UNCHANGED <<ocr_cache, calls, pc, file, opts, img, validated, verdict, ocr_input,
                   ocr_calls, paddle_lines, tesseract_text, result,
                   extracted, exc, files, threads, passes, results>>

\* t_text = pytesseract.image_to_string(crop, ...).strip(), then the choice
TessFallback ==
    /\ pc = "tess"
    /\ idx <= Len(paddle_lines)
    /\ ~high_confidence(paddle_lines[idx].conf)
    /\ \E out \in FallbackOutputs :
          /\ merged_lines' =
                Append(merged_lines, choose_text(paddle_lines[idx].text, strip(out)))
          /\ tess_log' = Append(tess_log, Logged(TRUE, FALSE, strip(out)))
    /\ idx' = idx + 1
    /\ UNCHANGED <<ocr_cache, calls, pc, file, opts, img, validated, verdict, ocr_input,
                   ocr_calls, paddle_lines, tesseract_text, result,
                   extracted, exc, files, threads, passes, results>>

\* pytesseract.image_to_string raises: nothing in run_tesseract_on_low_conf
\* catches it, and the except clause of extract_text ends the call with
\* `return text`, text = ""
TessRaises ==
    /\ pc = "tess"
    /\ idx <= Len(paddle_lines)
    /\ ~high_confidence(paddle_lines[idx].conf)
    /\ tess_log' = Append(tess_log, Logged(TRUE, TRUE, <<>>))
    /\ result' = StrResult(<<>>)
    /\ exc' = "image_to_string"
    /\ pc' = "done"
    /\ UNCHANGED <<ocr_cache, calls, file, opts, img, validated, verdict, ocr_input,
                   ocr_calls, paddle_lines, idx, merged_lines, tesseract_text,
                   extracted, files, threads, passes, results>>

\* text = "\n".join(postprocess_text(merged_lines)); return success True
TessReturn ==
    /\ pc = "tess"
    /\ idx > Len(paddle_lines)
    /\ tesseract_text' = join(postprocess_text(merged_lines))
    /\ pc' = "combine"
    /\ UNCHANGED <<ocr_cache, calls, file, opts, img, validated, verdict, ocr_input,
                   ocr_calls, paddle_lines, idx, merged_lines, tess_log, result,
                   extracted, exc, files, threads, passes, results>>

\* the first line of a text
first_line(text) == IF splitlines(text) = <<>> THEN <<>> ELSE Head(splitlines(text))

\* a store made while final_lines holds its first line only
cache_store_first_line(cache, key, text) ==
    [k \in DOMAIN cache \cup {key} |-> IF k = key THEN first_line(text) ELSE cache[k]]

\* a store that rebuilds the dictionary around the new entry
cache_store_alone(cache, key, text) == [k \in {key} |-> text]

\* ocr_cache[image_hash] = final_text
cache_store(cache, key, text) ==
    [k \in DOMAIN cache \cup {key} |-> IF k = key THEN text ELSE cache[k]]

\* a record of `extracted`
Extraction(content, filename, text) ==
    [content |-> content, filename |-> filename, text |-> text]

\* extract_text, steps 4 and 5: deduplicate, cache, return success True
Combine ==
    /\ pc = "combine"
    /\ ocr_cache' = cache_store(ocr_cache, image_hash, combine(tesseract_text))
    /\ result' = DictResult(TRUE, Msg("Text extracted successfully"),
                            combine(tesseract_text))
    /\ extracted' = extracted \cup
          {Extraction(file.content, file.filename, combine(tesseract_text))}
    /\ pc' = "done"
    /\ UNCHANGED <<calls, file, opts, img, validated, verdict, ocr_input, ocr_calls,
                   paddle_lines, idx, merged_lines, tess_log, tesseract_text, exc,
                   files, threads, passes, results>>

Next ==
    \/ Call
    \/ CacheHit
    \/ OpenImage
    \/ SuperResolve
    \/ Validate
    \/ Normalize
    \/ NormalizeRaises
    \/ OcrRaises
    \/ OcrReturns
    \/ TessKeep
    \/ TessFallback
    \/ TessRaises
    \/ TessReturn
    \/ Combine

Spec == Init /\ [][Next]_vars


\* ------------------------------------------- the quality gate on its own
\* run_paddle_ocr entered with any image and any options, up to the gate
MaxGateLevel == 2

GateHeights == {124, 125, 499, 500} \cup {500 + k : k \in 1..MaxGateLevel}
GateFocus == {0, 99, 100} \cup {100 + k : k \in 1..MaxGateLevel}
GateRanges == {0, 14, 15} \cup {15 + k : k \in 1..MaxGateLevel}

AllOpts == [use_superres : BOOLEAN, use_deskew : BOOLEAN, debug : BOOLEAN]

InitGate ==
    /\ ocr_cache = [k \in {} |-> <<>>]
    /\ files = NoFiles
    /\ threads = <<>>
    /\ passes = <<>>
    /\ results = <<>>
    /\ calls = 1
    /\ pc = "superres"
    /\ file = NoFile
    /\ opts \in AllOpts
    /\ img \in {Image(h, ch, fm, rng) :
                   h \in GateHeights, ch \in {3, 4}, fm \in GateFocus, rng \in GateRanges}
    /\ validated = NoImage
    /\ verdict = NoVerdict
    /\ ocr_input = NoInput
    /\ ocr_calls = 0
    /\ paddle_lines = <<>>
    /\ idx = 0
    /\ merged_lines = <<>>
    /\ tess_log = <<>>
    /\ tesseract_text = <<>>
    /\ result = NoResult
    /\ extracted = {}
    /\ exc = ""

NextGate == SuperResolve \/ Validate

SpecGate == InitGate /\ [][NextGate]_vars

\* ---------------------------------------------- the reconciler on its own
\* run_tesseract_on_low_conf entered with any list of recognized lines
MaxTessLines == 2

Line(text, conf) == [text |-> text, conf |-> conf]

TessLines ==
    { Line(T_Itern5, 500000),
      Line(T_Item50, 500000),
      Line(T_ItemS, 749999),
      Line(T_ab, 749999),
      Line(T_ab, 750000),
      Line(T_Dollar4, 900000),
      Line(T_Total40, 500000),
      Line(<<>>, 900000) }

InitTess ==
    /\ ocr_cache = [k \in {} |-> <<>>]
    /\ files = NoFiles
    /\ threads = <<>>
    /\ passes = <<>>
    /\ results = <<>>
    /\ calls = 1
    /\ pc = "tess"
    /\ file = NoFile
    /\ opts = DefaultOpts
    /\ img = NoImage
    /\ validated = NoImage
    /\ verdict = NoVerdict
    /\ ocr_input = NoInput
    /\ ocr_calls = 1
    /\ paddle_lines \in SeqsUpTo(TessLines, MaxTessLines) \ {<<>>}
    /\ idx = 1
    /\ merged_lines = <<>>
    /\ tess_log = <<>>
    /\ tesseract_text = <<>>
    /\ result = NoResult
    /\ extracted = {}
    /\ exc = ""

NextTess == TessKeep \/ TessFallback \/ TessRaises \/ TessReturn

SpecTess == InitTess /\ [][NextTess]_vars

\* ------------------------------------------- concurrent extract_text calls
\* extract_text entered by several threads of one process (extract_text_sync
\* runs each call on an event loop of the calling thread); a step is one
\* access to ocr_cache or to the working directory together with the
\* thread-local work around it.
MaxThreads == 2

Threads == 1..MaxThreads

ThreadFiles ==
    {[filename |-> "scan.png", content |-> c] :
        c \in {Content("d1", TRUE, "RGB", 600, 150, 200),
               Content("d3", TRUE, "RGBA", 125, 150, 200)}}

\* the final texts a finished extraction may hold
FinalTexts == {T_a, T_ab_cde}

\* the locals of one invocation and, as history, whether it returned from
\* the cache, the final_text it stored and the paths it wrote
Thread(at, f, res, hit, stored, wrote) ==
    [pc |-> at, file |-> f, result |-> res, hit |-> hit, stored |-> stored,
     wrote |-> wrote]

NotStored == <<"none">>

thread_hash(t) == get_image_hash(threads[t].file.content)

\* the locals of every sequential call, at rest
SeqVars ==
    << calls, pc, file, opts, img, validated, verdict, ocr_input, ocr_calls,
       paddle_lines, idx, merged_lines, tess_log, tesseract_text, result,
       extracted, exc, passes, results >>

InitThreads ==
    /\ ocr_cache = [k \in {} |-> <<>>]
    /\ files = NoFiles
    /\ threads = [t \in Threads |-> Thread("idle", NoFile, NoResult, FALSE, NotStored, {})]
    /\ passes = <<>>
    /\ results = <<>>
    /\ calls = 0
    /\ pc = "idle"
    /\ file = NoFile
    /\ opts = DefaultOpts
    /\ extracted = {}
    /\ CallLocals

\* ext, content = await file.read(), image_hash = get_image_hash(img_bytes)
ThreadCall(t) ==
    /\ threads[t].pc = "idle"
    /\ \E f \in ThreadFiles :
          threads' = [threads EXCEPT ![t] =
                         Thread("lookup", f, NoResult, FALSE, NotStored, {})]
    /\ UNCHANGED <<ocr_cache, files>>
    /\ UNCHANGED SeqVars

\* a lookup that reserves the key of a miss with an empty entry
ThreadLookup_reserving(t) ==
    /\ threads[t].pc = "lookup"
    /\ IF thread_hash(t) \in DOMAIN ocr_cache
       THEN /\ threads' = [threads EXCEPT ![t].pc = "hit"]
            /\ UNCHANGED ocr_cache
       ELSE /\ threads' = [threads EXCEPT ![t].pc = "recognize"]
            /\ ocr_cache' = cache_store(ocr_cache, thread_hash(t), <<>>)
    /\ UNCHANGED files
    /\ UNCHANGED SeqVars

\* if image_hash in ocr_cache
ThreadLookup(t) ==
    /\ threads[t].pc = "lookup"
    /\ threads' = [threads EXCEPT ![t].pc =
                      IF thread_hash(t) \in DOMAIN ocr_cache THEN "hit" ELSE "recognize"]
    /\ UNCHANGED <<ocr_cache, files>>
    /\ UNCHANGED SeqVars

\* return {..., "text": ocr_cache[image_hash]}
ThreadHit(t) ==
    /\ threads[t].pc = "hit"
    /\ threads' = [threads EXCEPT
          ![t].pc = "done",
          ![t].hit = TRUE,
          ![t].result = DictResult(TRUE, Msg("Text extracted successfully"),
                                   ocr_cache[thread_hash(t)])]
    /\ UNCHANGED <<ocr_cache, files>>
    /\ UNCHANGED SeqVars

\* what run_paddle_ocr may end with once the image is normalized
EngineOutcomes ==
    { DictResult(FALSE, MsgOcrFailed("engine"), <<>>),
      DictResult(FALSE, Msg("No text detected"), <<>>),
      DictResult(FALSE, Msg("No valid text found"), <<>>),
      NoResult }

\* Image.open, then run_paddle_ocr(img_np, debug=True): super_resolve, the
\* gate, preprocess_image with its debug images, the primary engine
ThreadRecognize(t) ==
    /\ threads[t].pc = "recognize"
    /\ \E im \in {img_np(threads[t].file.content)} \cup
                 {Upsampled(img_np(threads[t].file.content), fm, rng) :
                     fm \in SRFocus, rng \in SRRange} :
          IF ~gate_open(validate(im))
          THEN /\ threads' = [threads EXCEPT
                     ![t].pc = "done",
                     ![t].result = DictResult(FALSE, validate(im).msg, <<>>)]
               /\ UNCHANGED files
          ELSE /\ files' = imwrite(files, threads[t].file.content.md5)
               /\ \E res \in EngineOutcomes :
                     threads' = [threads EXCEPT
                        ![t].pc = IF res = NoResult THEN "fallback" ELSE "done",
                        ![t].result = res,
                        ![t].wrote = DebugFiles]
    /\ UNCHANGED ocr_cache
    /\ UNCHANGED SeqVars

\* run_tesseract_on_low_conf raises: the except clause of extract_text
\* ends the call with `return text`, text = ""
ThreadFallbackRaises(t) ==
    /\ threads[t].pc = "fallback"
    /\ threads' = [threads EXCEPT ![t].pc = "done", ![t].result = StrResult(<<>>)]
    /\ UNCHANGED <<ocr_cache, files>>
    /\ UNCHANGED SeqVars

\* run_tesseract_on_low_conf, the deduplication, then
\* ocr_cache[image_hash] = final_text and the success return
ThreadStore(t) ==
    /\ threads[t].pc = "fallback"
    /\ \E final_text \in FinalTexts :
          /\ ocr_cache' = cache_store(ocr_cache, thread_hash(t), final_text)
          /\ threads' = [threads EXCEPT
                ![t].pc = "done",
                ![t].stored = final_text,
                ![t].result =
                    DictResult(TRUE, Msg("Text extracted successfully"), final_text)]
    /\ UNCHANGED files
    /\ UNCHANGED SeqVars

NextThreads ==
    \E t \in Threads :
        \/ ThreadCall(t)
        \/ ThreadLookup(t)
        \/ ThreadHit(t)
        \/ ThreadRecognize(t)
        \/ ThreadFallbackRaises(t)
        \/ ThreadStore(t)

SpecThreads == InitThreads /\ [][NextThreads]_vars


\* ------------------------------------------------ postprocess_text on its own
\* postprocess_text called with any list of lines, and again with what it
\* returned
MaxLineLen == 5
MaxPasses == 2

T_TotalSpaced == <<"T", "o", "t", "a", "l", " ", ":", " ", " ", "$", " ", "4", "0">>
T_I1emPrice == <<"I", "1", "e", "m", " ", "$", " ", "-", " ", "5">>
T_DashI1em == <<" ", "-", " ", "I", "1", "e", "m", "$", " ">>

\* every line of "$", " ", "-" and a letter up to MaxLineLen characters, and
\* longer lines with "I1em" and with a colon
CleanLines ==
    SeqsUpTo({"$", " ", "-", "x"}, MaxLineLen) \cup {T_TotalSpaced, T_I1emPrice, T_DashI1em}

InitClean ==
    /\ ocr_cache = [k \in {} |-> <<>>]
    /\ files = NoFiles
    /\ threads = <<>>
    /\ passes = <<>>
    /\ results = <<>>
    /\ calls = 0
    /\ pc = "clean"
    /\ file = NoFile
    /\ opts = DefaultOpts
    /\ img = NoImage
    /\ validated = NoImage
    /\ verdict = NoVerdict
    /\ ocr_input = NoInput
    /\ ocr_calls = 0
    /\ paddle_lines = <<>>
    /\ idx = 0
    /\ \E line \in CleanLines : merged_lines \in {<<line>>, <<T_a, line>>}
    /\ tess_log = <<>>
    /\ tesseract_text = <<>>
    /\ result = NoResult
    /\ extracted = {}
    /\ exc = ""

\* postprocess_text(lines), lines the given list or the last list returned
Postprocess ==
    /\ pc = "clean"
    /\ Len(passes) < MaxPasses
    /\ passes' = Append(passes, postprocess_text(IF passes = <<>> THEN merged_lines
                                                 ELSE passes[Len(passes)]))
    /\ UNCHANGED <<ocr_cache, calls, pc, file, opts, img, validated, verdict, ocr_input,
                   ocr_calls, paddle_lines, idx, merged_lines, tess_log, tesseract_text,
                   result, extracted, exc, files, threads, results>>

NextClean == Postprocess

SpecClean == InitClean /\ [][NextClean]_vars

\* ----------------------------------------------- the normalizer on its own
\* run_paddle_ocr from preprocess_image to ensure_bgr (lines 54-60), and
\* ensure_bgr called with any array, over pictures with their width, their
\* binarization and their rotation
MaxSide == 2
MaxContours == 2

\* A picture: height, width, channels (0 for a 2-D array); whether it is
\* the binarized image and, if so, its numbers of 0 and of 255 pixels and
\* whether bitwise_not inverted it;
\* whether warpAffine turned it, by which angle (in half degrees), and the
\* median contour angle that was found (in half degrees).
Pic(h, w, ch) ==
    [h |-> h, w |-> w, ch |-> ch, binarized |-> FALSE, black |-> 0, white |-> 0,
     inverted |-> FALSE,
     warped |-> FALSE, angle2 |-> 0, median2 |-> 0]

Pics == {Pic(h, w, ch) : h \in 1..MaxSide, w \in 1..MaxSide, ch \in 0..5}

\* if black_pixels > white_pixels: thresh = cv2.bitwise_not(thresh)
\* with the tie inverted as well
polarity_inverts_tie(black, white) == black >= white

\* if black_pixels > white_pixels: thresh = cv2.bitwise_not(thresh)
polarity_inverts(black, white) == black > white

\* preprocess_image from its adaptive threshold on: `thresh` is a 2-D array
\* of 0 and 255 of the size of the input, `black` of its pixels being 0,
\* inverted when black pixels outnumber the white ones
binarized_image(image, black) ==
    LET white == image.h * image.w - black
    IN  [image EXCEPT !.ch = 0, !.binarized = TRUE,
                      !.inverted = polarity_inverts(black, white),
                      !.black = IF polarity_inverts(black, white) THEN white ELSE black,
                      !.white = IF polarity_inverts(black, white) THEN black ELSE white]


\* the angles cv2.minAreaRect reports for a contour, in degrees
RawAngles == {-90, -80, -45, -10, 0, 10, 45, 80}

\* angle = rect[-1]; if angle < -45: angle += 90
folded(angle) == IF angle < -45 THEN angle + 90 ELSE angle

\* if -45 < angle < 45: angles.append(angle)
RECURSIVE angles_of(_)
angles_of(raw) ==
    IF raw = <<>> THEN <<>>
    ELSE LET angle == folded(Head(raw))
         IN  (IF -45 < angle /\ angle < 45 THEN <<angle>> ELSE <<>>) \o angles_of(Tail(raw))

\* the k-th smallest element of a list
kth(angles, k) ==
    CHOOSE a \in {angles[i] : i \in DOMAIN angles} :
        /\ Cardinality({i \in DOMAIN angles : angles[i] < a}) < k
        /\ Cardinality({i \in DOMAIN angles : angles[i] <= a}) >= k

\* np.median(angles), doubled: the middle element, or the mean of the two
\* middle elements
median2(angles) ==
    LET n == Len(angles)
    IN  IF n % 2 = 1 THEN 2 * kth(angles, (n + 1) \div 2)
        ELSE kth(angles, n \div 2) + kth(angles, n \div 2 + 1)

\* deskew_image: M = cv2.getRotationMatrix2D(center, median_angle, 1.0);
\* return cv2.warpAffine(image, M, (w, h), ...) when an angle was kept,
\* return image otherwise (also when one of its steps raises, which its
\* except clause logs); black and white stay the counts before the turn
deskewed(image, raw) ==
    IF angles_of(raw) = <<>> THEN image
    ELSE [image EXCEPT !.warped = TRUE,
                       !.median2 = median2(angles_of(raw)),
                       !.angle2 = median2(angles_of(raw))]

InitNorm ==
    /\ ocr_cache = [k \in {} |-> <<>>]
    /\ files = NoFiles
    /\ threads = <<>>
    /\ passes = <<>>
    /\ results = <<>>
    /\ calls = 1
    /\ pc \in {"preprocess", "ensure_bgr"}
    /\ file = NoFile
    /\ opts \in AllOpts
    /\ img \in Pics
    /\ validated = img
    /\ verdict = NoVerdict
    /\ ocr_input = NoInput
    /\ ocr_calls = 0
    /\ paddle_lines = <<>>
    /\ idx = 0
    /\ merged_lines = <<>>
    /\ tess_log = <<>>
    /\ tesseract_text = <<>>
    /\ result = NoResult
    /\ extracted = {}
    /\ exc = ""

\* img = preprocess_image(img, debug=debug): ensure_bgr first, which raises
\* on an unsupported layout; then the chain down to the binarized image,
\* whose debug images are written when it is inverted and when debug is set
PreprocessImage ==
    /\ pc = "preprocess"
    /\ IF EnsureBgrRaises(img)
       THEN /\ exc' = "ensure_bgr"
            /\ pc' = "raised"
            /\ UNCHANGED <<img, files>>
       ELSE /\ \E black \in 0..(img.h * img.w) :
                  /\ img' = binarized_image(img, black)
                  /\ files' = IF opts.debug \/ polarity_inverts(black, img.h * img.w - black)
                              THEN imwrite(files, "written")
                              ELSE files
            /\ pc' = "deskew"
            /\ UNCHANGED exc
    /\ UNCHANGED <<ocr_cache, calls, file, opts, validated, verdict, ocr_input, ocr_calls,
                   paddle_lines, idx, merged_lines, tess_log, tesseract_text, result,
                   extracted, threads, passes, results>>

\* if use_deskew: img = deskew_image(img)
Deskew ==
    /\ pc = "deskew"
    /\ IF opts.use_deskew
       THEN \E raw \in SeqsUpTo(RawAngles, MaxContours) : img' = deskewed(img, raw)
       ELSE img' = img
    /\ pc' = "ensure_bgr"
    /\ UNCHANGED <<ocr_cache, calls, file, opts, validated, verdict, ocr_input, ocr_calls,
                   paddle_lines, idx, merged_lines, tess_log, tesseract_text, result,
                   extracted, exc, files, threads, passes, results>>

\* img = ensure_bgr(img), the image given to ocr.ocr
EnsureBgr ==
    /\ pc = "ensure_bgr"
    /\ IF EnsureBgrRaises(img)
       THEN /\ exc' = "ensure_bgr"
            /\ pc' = "raised"
            /\ UNCHANGED ocr_input
       ELSE /\ ocr_input' = ensure_bgr(img)
            /\ pc' = "normalized"
            /\ UNCHANGED exc
    /\ UNCHANGED <<ocr_cache, calls, file, opts, img, validated, verdict, ocr_calls,
                   paddle_lines, idx, merged_lines, tess_log, tesseract_text, result,
                   extracted, files, threads, passes, results>>

NextNorm == PreprocessImage \/ Deskew \/ EnsureBgr

SpecNorm == InitNorm /\ [][NextNorm]_vars

\* ----------------------------------------------- run_paddle_ocr on its own
\* run_paddle_ocr called with an array of any supported layout and any
\* options, the engine's answer kept until the loop over it has run
InitPaddle ==
    /\ ocr_cache = [k \in {} |-> <<>>]
    /\ files = NoFiles
    /\ threads = <<>>
    /\ passes = <<>>
    /\ results = <<>>
    /\ calls = 1
    /\ pc = "superres"
    /\ file = NoFile
    /\ opts \in AllOpts
    /\ img \in {Image(h, ch, fm, rng) :
                   h \in GateHeights, ch \in {0, 3, 4}, fm \in GateFocus, rng \in GateRanges}
    /\ validated = NoImage
    /\ verdict = NoVerdict
    /\ ocr_input = NoInput
    /\ ocr_calls = 0
    /\ paddle_lines = <<>>
    /\ idx = 0
    /\ merged_lines = <<>>
    /\ tess_log = <<>>
    /\ tesseract_text = <<>>
    /\ result = NoResult
    /\ extracted = {}
    /\ exc = ""

\* results = ocr.ocr(img, cls=True) returns
OcrDetects ==
    /\ pc = "ocr"
    /\ ocr_calls' = ocr_calls + 1
    /\ results' \in SeqsUpTo(Regions, MaxLines)
    /\ pc' = "crop"
    /\ UNCHANGED <<ocr_cache, calls, file, opts, img, validated, verdict, ocr_input,
                   paddle_lines, idx, merged_lines, tess_log, tesseract_text, result,
                   extracted, exc, files, threads, passes>>

\* if not results or not results[0]: "No text detected"; the loop over
\* results[0]; if not paddle_lines: "No valid text found"; else the lines
CropLoop ==
    /\ pc = "crop"
    /\ IF results = <<>>
       THEN /\ result' = DictResult(FALSE, Msg("No text detected"), <<>>)
            /\ UNCHANGED paddle_lines
       ELSE IF to_paddle_lines(results) = <<>>
       THEN /\ result' = DictResult(FALSE, Msg("No valid text found"), <<>>)
            /\ UNCHANGED paddle_lines
       ELSE /\ paddle_lines' = to_paddle_lines(results)
            /\ result' = DictResult(TRUE, Msg("Text extracted"), <<>>)
    /\ pc' = "done"
    /\ UNCHANGED <<ocr_cache, calls, file, opts, img, validated, verdict, ocr_input,
                   ocr_calls, idx, merged_lines, tess_log, tesseract_text,
                   extracted, exc, files, threads, passes, results>>

\* preprocess_crop(cropped) raises on a kept region: "OCR failed: ..."
CropRaises ==
    /\ pc = "crop"
    /\ to_paddle_lines(results) # <<>>
    /\ result' = DictResult(FALSE, MsgOcrFailed("preprocess_crop"), <<>>)
    /\ exc' = "preprocess_crop"
    /\ pc' = "done"
    /\ UNCHANGED <<ocr_cache, calls, file, opts, img, validated, verdict, ocr_input,
                   ocr_calls, paddle_lines, idx, merged_lines, tess_log, tesseract_text,
                   extracted, files, threads, passes, results>>

NextPaddle ==
    \/ SuperResolve
    \/ Validate
    \/ Normalize
    \/ NormalizeRaises
    \/ OcrRaises
    \/ OcrDetects
    \/ CropLoop
    \/ CropRaises

SpecPaddle == InitPaddle /\ [][NextPaddle]_vars

\* ------------------------------------------------ the crop loop on its own
\* the loop of run_paddle_ocr over results[0], entered with the normalized
\* image and any list of detected quadrilaterals inside it; coordinates are
\* counted in half pixels
MaxBoxes == 2
CropSide == 6

\* a point [x, y] of a box
Pt(x, y) == <<x, y>>

\* a detection line = [box, (text, conf)], box = four points
Detection(box, text, conf) == [box |-> box, text |-> text, conf |-> conf]

T_spaced_a == <<" ", "a", " ">>

\* quadrilaterals with their corners in the order top-left, top-right,
\* bottom-right, bottom-left, slanted by dx, on both sides of the size floor
Detections ==
    { Detection(<<Pt(x0 + dx, 0), Pt(x1, 0), Pt(x1 - dx, y1), Pt(x0, y1)>>, text, 900000) :
          x0 \in {0, 1}, x1 \in {9, 10, 11}, y1 \in {9, 10}, dx \in {0, 1},
          text \in {T_a, T_spaced_a} }

\* int(c) of a coordinate that is not negative
int_px(c2) == c2 \div 2

Least(S) == CHOOSE a \in S : \A b \in S : a <= b
Greatest(S) == CHOOSE a \in S : \A b \in S : a >= b

\* the box spanned by the first and the third corner only
bbox_of_corners(box) ==
    [x_min |-> int_px(box[1][1]), x_max |-> int_px(box[3][1]),
     y_min |-> int_px(box[1][2]), y_max |-> int_px(box[3][2])]

\* x_min = int(min(pt[0] for pt in box)) ... y_max = int(max(pt[1] for pt in box))
bbox(box) ==
    [x_min |-> int_px(Least({box[k][1] : k \in 1..4})),
     x_max |-> int_px(Greatest({box[k][1] : k \in 1..4})),
     y_min |-> int_px(Least({box[k][2] : k \in 1..4})),
     y_max |-> int_px(Greatest({box[k][2] : k \in 1..4}))]

\* the length of a[lo:hi] on an axis of length n, lo and hi not negative
slice_len(lo, hi, n) ==
    LET a == IF lo < n THEN lo ELSE n
        b == IF hi < n THEN hi ELSE n
    IN  IF b > a THEN b - a ELSE 0

\* cropped = img[y_min:y_max, x_min:x_max], as the region of its size
cropped(image, line) ==
    Region(line.text, line.conf,
           slice_len(bbox(line.box).y_min, bbox(line.box).y_max, image.h),
           slice_len(bbox(line.box).x_min, bbox(line.box).x_max, image.w))

\* the regions of results[0], each with the size of its crop
crops_of(image, lines) == [i \in 1..Len(lines) |-> cropped(image, lines[i])]

InitCrop ==
    /\ ocr_cache = [k \in {} |-> <<>>]
    /\ files = NoFiles
    /\ threads = <<>>
    /\ passes = <<>>
    /\ results \in SeqsUpTo(Detections, MaxBoxes)
    /\ calls = 1
    /\ pc = "crop"
    /\ file = NoFile
    /\ opts = DefaultOpts
    /\ img = NoImage
    /\ validated = NoImage
    /\ verdict = NoVerdict
    /\ ocr_input = ensure_bgr(Pic(CropSide, CropSide, 0))
    /\ ocr_calls = 1
    /\ paddle_lines = <<>>
    /\ idx = 0
    /\ merged_lines = <<>>
    /\ tess_log = <<>>
    /\ tesseract_text = <<>>
    /\ result = NoResult
    /\ extracted = {}
    /\ exc = ""

\* the loop over results[0] with its boxes and crops, and the return
CropBoxes ==
    /\ pc = "crop"
    /\ IF results = <<>>
       THEN /\ result' = DictResult(FALSE, Msg("No text detected"), <<>>)
            /\ UNCHANGED paddle_lines
       ELSE IF to_paddle_lines(crops_of(ocr_input, results)) = <<>>
       THEN /\ result' = DictResult(FALSE, Msg("No valid text found"), <<>>)
            /\ UNCHANGED paddle_lines
       ELSE /\ paddle_lines' = to_paddle_lines(crops_of(ocr_input, results))
            /\ result' = DictResult(TRUE, Msg("Text extracted"), <<>>)
    /\ pc' = "done"
    /\ UNCHANGED <<ocr_cache, calls, file, opts, img, validated, verdict, ocr_input,
                   ocr_calls, idx, merged_lines, tess_log, tesseract_text,
                   extracted, exc, files, threads, passes, results>>

NextCrop == CropBoxes

SpecCrop == InitCrop /\ [][NextCrop]_vars

\* ================================================================== claims
Rejected == verdict.checks # <<>> /\ ~verdict.raised /\ ~verdict.valid

FallbackCalled == {k \in 1..Len(tess_log) : tess_log[k].called}

\* C1: when validate rejects the image of a call, the call ends with the
\* negative result {success: False, message: <reason>, text: ""} and neither
\* the primary nor the fallback engine is invoked in that call.
C1_RejectedNeverReachesEngines ==
    Rejected =>
        /\ ocr_calls = 0
        /\ FallbackCalled = {}
        /\ pc = "done"
        /\ result = DictResult(FALSE, verdict.msg, <<>>)
        /\ verdict.msg \in
              { MsgBlurry(validated.fm), Msg("The image has low contrast"),
                Msg("Please upload an image with higher resolution") }

\* C1 witness: a call rejected for its resolution has ended.
C1_Witness ==
    /\ Rejected
    /\ pc = "done"
    /\ result.message = Msg("Please upload an image with higher resolution")

Validated == verdict.checks # <<>> /\ ~verdict.raised

C3_ValidIffAllThresholdsMet ==
    Validated =>
        (verdict.valid <=>
            (validated.fm >= 100 /\ validated.rng >= 15 /\ validated.h >= 500))

\* C3 witness: an image exactly on the three thresholds is accepted.
C3_Witness ==
    /\ Validated
    /\ validated.fm = 100 /\ validated.rng = 15 /\ validated.h = 500
    /\ verdict.valid

MentionsResolution(m) == m.text \in {"Please upload an image with higher resolution"}

\* C4: for every image less than 500 pixels high, validate returns
\* is_valid = False with a message that mentions resolution.
C4_LowImagesReportResolution ==
    (Validated /\ validated.h < 500) =>
        (~verdict.valid /\ MentionsResolution(verdict.msg))

\* C5: the image validate assesses in run_paddle_ocr is the raw image the
\* caller supplied: nothing, super-resolution included, is applied before.
C5_GateSeesRawImage ==
    (verdict.checks # <<>> /\ file # NoFile) => validated = img_np(file.content)

Returned == pc \in {"combine", "done"} /\ paddle_lines # <<>>

Contested == {k \in 1..Len(paddle_lines) : paddle_lines[k].conf < 750000}

\* C6: in run_tesseract_on_low_conf the fallback engine is invoked for a
\* line exactly when its confidence is below 0.75, once, so when the
\* function has ended the fallback calls are as many as the lines with
\* confidence < 0.75.
C6_FallbackCallsEqualContestedLines ==
    Returned =>
        /\ FallbackCalled = Contested
        /\ Cardinality(FallbackCalled) = Cardinality(Contested)

\* C7: for a contested line the final text is the fallback candidate
\* exactly when the candidate is non-empty and (its similarity ratio to the
\* primary text is >= 0.85 or it is more than 3 characters longer than the
\* primary text); otherwise, an empty candidate included, it is the
\* primary text.
C7_FallbackKeptIffSimilarOrLonger ==
    \A k \in 1..Len(merged_lines) :
        (tess_log[k].called /\ ~tess_log[k].raised) =>
            LET text == paddle_lines[k].text
                cand == tess_log[k].t_text
                take == /\ Len(cand) > 0
                        /\ \/ 100 * 2 * lcs(cand, text) >= 85 * (Len(cand) + Len(text))
                           \/ Len(cand) > Len(text) + 3
            IN  /\ paddle_lines[k].conf < 750000
                /\ merged_lines[k] = (IF take THEN cand ELSE text)

\* C7 witness: a candidate exactly 3 characters longer than the primary
\* text and not similar to it was turned down, and the primary text kept.
C7_Witness ==
    \E k \in 1..Len(merged_lines) :
        /\ tess_log[k].called
        /\ Len(tess_log[k].t_text) = Len(paddle_lines[k].text) + 3
        /\ ~SimilarEnough(lev_ratio(tess_log[k].t_text, paddle_lines[k].text))
        /\ merged_lines[k] = paddle_lines[k].text
        /\ merged_lines[k] # tess_log[k].t_text

ItemCase(k) ==
    /\ paddle_lines[k] = Line(T_Itern5, 500000)
    /\ tess_log[k].called
    /\ ~tess_log[k].raised
    /\ tess_log[k].t_text = T_Item5

\* C8 as amended: for primary text "Itern 5" at confidence 0.5 and fallback
\* candidate "Item 5" the similarity ratio is 10/13, which is below 0.85,
\* the candidate is not more than 3 characters longer, and the final text
\* of the line is the primary text "Itern 5".
C8_IternKeepsPrimary ==
    \A k \in 1..Len(merged_lines) :
        ItemCase(k) =>
            /\ similarity(tess_log[k].t_text, paddle_lines[k].text) = [num |-> 10, den |-> 13]
            /\ ~SimilarEnough(similarity(tess_log[k].t_text, paddle_lines[k].text))
            /\ merged_lines[k] = T_Itern5

\* C8 witness: the line "Itern 5" has been reconciled against "Item 5".
C8_Witness == \E k \in 1..Len(merged_lines) : ItemCase(k)

\* C8 as stated: for that line the similarity ratio is >= 0.85 and the
\* final text is "Item 5".
C8_IternBecomesItem ==
    \A k \in 1..Len(merged_lines) :
        ItemCase(k) =>
            /\ 100 * 2 * lcs(T_Item5, T_Itern5) >= 85 * (Len(T_Item5) + Len(T_Itern5))
            /\ merged_lines[k] = T_Item5

Cleaned == [k \in 1..Len(merged_lines) |-> clean_line(merged_lines[k])]

NonEmpty(s) == s # <<>>

\* C9 as amended: every input line gets exactly one final string, its
\* primary text or its fallback candidate, and the text returned by
\* run_tesseract_on_low_conf is the newline-join, in input order, of the
\* cleaned final strings that are not empty: cleaning rewrites a final
\* string, a line whose cleaned final string is empty is dropped, and
\* nothing is reordered.
C9_OutputIsCleanedLinesInOrder ==
    pc = "combine" =>
        /\ Len(merged_lines) = Len(paddle_lines)
        /\ \A k \in 1..Len(merged_lines) :
              merged_lines[k] =
                  (IF tess_log[k].called /\ merged_lines[k] # paddle_lines[k].text
                   THEN tess_log[k].t_text
                   ELSE paddle_lines[k].text)
        /\ tesseract_text = join(SelectSeq(Cleaned, NonEmpty))

\* C9 witness: the function returned a non-empty text with fewer lines
\* than it was given.
C9_Witness ==
    /\ pc = "combine"
    /\ tesseract_text # <<>>
    /\ Len(splitlines(tesseract_text)) < Len(paddle_lines)

\* C9 as stated: the returned text has exactly one line per input line and
\* its k-th line is the final string chosen for the k-th input line.
C9_OneOutputLinePerInputLine ==
    pc = "combine" =>
        /\ Len(splitlines(tesseract_text)) = Len(paddle_lines)
        /\ splitlines(tesseract_text) = merged_lines

FallbackRaised == \E k \in 1..Len(tess_log) : tess_log[k].raised

\* C10: when the fallback engine raises on a contested line, the line
\* keeps its primary text and the call still ends with success = true and
\* the merged text.
C10_FallbackFailureKeepsRequestAlive ==
    (pc = "done" /\ FallbackRaised) =>
        /\ result.kind = "dict"
        /\ result.success
        /\ Len(merged_lines) = Len(paddle_lines)

\* C11: if the primary recognition engine raises, the step at which it
\* raises ends the call with {success: False, message: "OCR failed:
\* <detail>", text: ""}: a structured result and no propagated exception,
\* no fallback engine call in the call, and the result cache as it was.
C11_EngineFailureEndsCall ==
    [][ (pc = "ocr" /\ exc' = "ocr.ocr") =>
            /\ pc' = "done"
            /\ result' = DictResult(FALSE, MsgOcrFailed("engine"), <<>>)
            /\ tess_log = <<>>
            /\ tess_log' = <<>>
            /\ ocr_cache' = ocr_cache
            /\ image_hash \notin DOMAIN ocr_cache' ]_vars

\* C11 witness: a call has ended at the primary engine's exception.
C11_Witness ==
    /\ pc = "done"
    /\ exc = "ocr.ocr"
    /\ ocr_calls = 1
    /\ ~result.success

\* C12: every image-path call of extract_text returns a structured result
\* with success, message and text, never a bare string, whatever happens
\* inside it (undecodable bytes, rejection, engine failure, no text, success).
C12_AlwaysStructuredResult ==
    pc = "done" =>
        /\ result.kind = "dict"
        /\ result.success \/ result.message # NoMsg

StepNames == {PreprocessSteps[k] : k \in 1..Len(PreprocessSteps)}

\* C13: when a sub-step of the normalizer raises, the normalizer still
\* hands an image to the primary engine and the call does not end with a
\* failure at that step.
C13_NormalizerStepFailureIsAbsorbed ==
    exc \in StepNames =>
        /\ ocr_input # NoInput
        /\ result # DictResult(FALSE, MsgOcrFailed(exc), <<>>)

\* the extractions of the bytes of the current call that ended at the cache
\* write
ExtractedBefore == {e \in extracted : e.content = file.content}

\* C14: once an extraction of bytes B has succeeded with text T, a lookup
\* under hash(B) returns exactly T from then on, and every call on B that
\* has ended returned {success: True, text: T}, T the text of that first
\* extraction.
C14_RepeatedCallReturnsFirstText ==
    /\ \A e \in extracted :
          /\ get_image_hash(e.content) \in DOMAIN ocr_cache
          /\ ocr_cache[get_image_hash(e.content)] = e.text
    /\ pc = "done" =>
          \A e \in ExtractedBefore :
              result = DictResult(TRUE, Msg("Text extracted successfully"), e.text)

\* C14 witness: a second call on bytes extracted before has ended without
\* any engine call and returned the two-line text of the first extraction.
C14_Witness ==
    /\ pc = "done"
    /\ calls = 2
    /\ ocr_calls = 0
    /\ \E e \in ExtractedBefore :
          /\ Len(splitlines(e.text)) = 2
          /\ result.text = e.text

\* C15: a call whose bytes were extracted before, under whatever filename,
\* takes the cache hit at its lookup: that step ends the call with the
\* stored text, and in the call the quality gate, the normalizer, the
\* primary engine and the fallback engine have not been invoked.
C15_SameBytesHitWhateverTheName ==
    [][ (pc = "lookup" /\ ExtractedBefore # {}) =>
            /\ pc' = "done"
            /\ \E e \in ExtractedBefore :
                  result' = DictResult(TRUE, Msg("Text extracted successfully"), e.text)
            /\ verdict' = NoVerdict
            /\ ocr_input' = NoInput
            /\ exc' = ""
            /\ ocr_calls' = 0
            /\ tess_log' = <<>> ]_vars

\* C15 witness: a call has ended on a hit for bytes that were extracted
\* under another filename.
C15_Witness ==
    /\ pc = "done"
    /\ result.success
    /\ ocr_calls = 0
    /\ verdict = NoVerdict
    /\ \E e \in ExtractedBefore : e.filename # file.filename

\* C16: a step changes ocr_cache only by adding the entry of the current
\* call's bytes, at the step that ends the call with success True and that
\* entry's text; every other step, the ones ending a call in a rejection,
\* an engine failure, no text or an exception among them, leaves the cache
\* as it was; and no step changes or removes an entry that exists.
C16_CacheLifecycle ==
    [][ /\ ocr_cache' # ocr_cache =>
              /\ pc = "combine"
              /\ pc' = "done"
              /\ result'.kind = "dict"
              /\ result'.success
              /\ image_hash \notin DOMAIN ocr_cache
              /\ DOMAIN ocr_cache' = DOMAIN ocr_cache \cup {image_hash}
              /\ ocr_cache'[image_hash] = result'.text
        /\ (pc' = "done" /\ pc # "done" /\ ~result'.success) => ocr_cache' = ocr_cache
        /\ \A k \in DOMAIN ocr_cache :
              /\ k \in DOMAIN ocr_cache'
              /\ ocr_cache'[k] = ocr_cache[k] ]_vars

\* C16 witness: a call has failed after an earlier one filled the cache,
\* and the entry is there.
C16_Witness ==
    /\ pc = "done"
    /\ calls = 2
    /\ ~result.success
    /\ exc # ""
    /\ \E e \in extracted : get_image_hash(e.content) \in DOMAIN ocr_cache

\* the final texts stored by the invocations for key k
StoredUnder(k) ==
    {threads[u].stored : u \in {v \in Threads : /\ threads[v].stored # NotStored
                                                 /\ thread_hash(v) = k}}

\* C17: under every interleaving of concurrent extract_text invocations,
\* at the granularity of single accesses to ocr_cache, an entry of the
\* cache is at all times a complete final text that some invocation stored
\* under its key, and an invocation that finds its key returns such a
\* text: a lookup sees a miss or a whole entry, never a partial one.
C17_LookupSeesMissOrCompleteText ==
    /\ \A k \in DOMAIN ocr_cache : ocr_cache[k] \in StoredUnder(k)
    /\ \A t \in Threads :
          threads[t].hit =>
              /\ threads[t].result.kind = "dict"
              /\ threads[t].result.success
              /\ threads[t].result.text \in StoredUnder(thread_hash(t))

\* C17 witness: an invocation returned from the cache the two-line text
\* that another invocation, running concurrently, stored.
C17_Witness ==
    \E t \in Threads, u \in Threads :
        /\ t # u
        /\ threads[t].hit
        /\ thread_hash(u) = thread_hash(t)
        /\ threads[u].stored = threads[t].result.text
        /\ Len(splitlines(threads[t].result.text)) = 2

Running(t) == threads[t].pc \notin {"idle", "done"}

\* C18: two invocations that run concurrently on different images write no
\* common location besides the result cache.
C18_NoSharedWrites ==
    \A t \in Threads, u \in Threads :
        (/\ t # u
         /\ Running(t)
         /\ Running(u)
         /\ threads[t].file.content # threads[u].file.content)
            => threads[t].wrote \cap threads[u].wrote = {}

T_TotalSpaced40 == <<"T", "o", "t", "a", "l", " ", ":", " ", " ", "$", "4", "0">>

\* the last line given to postprocess_text and what the first call
\* returned for it (the line before it, if any, is never dropped)
InputLine == merged_lines[Len(merged_lines)]

OutputLine ==
    IF Len(passes[1]) = Len(merged_lines) THEN passes[1][Len(passes[1])] ELSE <<>>

\* C19 as amended: postprocess_text(["Total :  $ 40"]) returns
\* ["Total :  $40"]: the space after "$" is removed and the spacing around
\* the colon is left as it is; the line gets the same output after another
\* line, and cleaning the output again returns it unchanged.
C19_TotalKeepsColonSpacing ==
    (passes # <<>> /\ InputLine = T_TotalSpaced) =>
        /\ OutputLine = T_TotalSpaced40
        /\ Len(passes[1]) = Len(merged_lines)
        /\ \A k \in 1..Len(passes) : passes[k][Len(passes[k])] = T_TotalSpaced40

\* C19 witness: ["Total :  $ 40"] has been cleaned, and its output again.
C19_Witness ==
    /\ merged_lines = <<T_TotalSpaced>>
    /\ Len(passes) = 2
    /\ passes[2] = <<T_TotalSpaced40>>

\* C19 as stated: postprocess_text(["Total :  $ 40"]) returns ["Total: $40"].
C19_TotalBecomesTight ==
    (passes # <<>> /\ merged_lines = <<T_TotalSpaced>>) => passes[1] = <<T_Total40>>

\* the three substitutions of postprocess_text, numbered in its order
Rule(k, txt) ==
    CASE k = 1 -> replace(txt, S_I1em, S_Item)
      [] k = 2 -> replace(txt, S_DollarSpace, S_Dollar)
      [] k = 3 -> replace(txt, S_SpaceDashSpace, S_Dash)

Orders == {o \in [1..3 -> 1..3] : {o[1], o[2], o[3]} = {1, 2, 3}}

rules_in_order(txt, o) == strip(Rule(o[3], Rule(o[2], Rule(o[1], txt))))

Position(o, k) == CHOOSE i \in 1..3 : o[i] = k

Contains(s, sub) ==
    \E i \in 1..(Len(s) - Len(sub) + 1) : SubSeq(s, i, i + Len(sub) - 1) = sub

S_DollarSpaceDashSpace == <<"$", " ", "-", " ">>

\* C20 as amended: postprocess_text applies "I1em" -> "Item", then "$ " ->
\* "$", then " - " -> "-"; the first rule commutes with the other two, and
\* for every line without "$ - " all six orders give the line it returns;
\* on "$ - " the last two rules overlap and the order decides.
C20_OrderMattersOnlyOnDollarDash ==
    passes # <<>> =>
        /\ OutputLine = rules_in_order(InputLine, <<1, 2, 3>>)
        /\ \A o \in Orders :
              (Position(o, 2) < Position(o, 3) \/ ~Contains(InputLine, S_DollarSpaceDashSpace))
                  => rules_in_order(InputLine, o) = OutputLine

\* C20 witness: a line with "$ - " has been cleaned, and the rules in
\* another order give another line.
C20_Witness ==
    /\ passes # <<>>
    /\ Contains(InputLine, S_DollarSpaceDashSpace)
    /\ OutputLine # <<>>
    /\ \E o \in Orders : rules_in_order(InputLine, o) # OutputLine

\* C20 as stated: for every input line, the rules applied in any order
\* give the cleaned line postprocess_text returns.
C20_AnyOrderSameLine ==
    passes # <<>> =>
        \A o \in Orders : rules_in_order(InputLine, o) = OutputLine


\* C21: ensure_bgr returns a 3-channel image of the same height and width
\* for a 2-D, 1-, 3- or 4-channel input, returns a 3-channel input as it is,
\* and raises for every other channel count.
C21_EnsureBgrGivesThreeChannels ==
    /\ pc = "normalized" =>
          /\ img.ch \in {0, 1, 3, 4}
          /\ ocr_input.ch = 3
          /\ ocr_input.h = img.h /\ ocr_input.w = img.w
          /\ (img.ch = 3 => ocr_input = img)
    /\ (pc = "raised" /\ validated = img) => (exc = "ensure_bgr" /\ img.ch \notin {0, 1, 3, 4})

C21_Witness ==
    /\ pc = "normalized" /\ validated = img
    /\ img.ch = 4 /\ ocr_input.ch = 3 /\ ocr_input.w = img.w


\* C22: for a 2-D, 3-channel or 4-channel image validate returns a verdict
\* and never raises, and run_paddle_ocr never reports such an image as an
\* engine failure because of its layout.
C22_GateAcceptsEveryLayout ==
    (pc \notin {"superres", "validate"} /\ validated.ch \in {0, 3, 4}) =>
        /\ ~verdict.raised
        /\ exc # "validate"
        /\ result.message.detail # "cvtColor"

\* a region of results[0] whose crop is at least MIN_CROP high and wide
Survives(i) == results[i].ch >= MIN_CROP /\ results[i].cw >= MIN_CROP

\* C24 as stated: the result of run_paddle_ocr is one of four shapes, a
\* success with lines or a failure saying "No text detected", "No valid
\* text found" or "OCR failed: ...".
C24_FourShapes ==
    pc = "done" =>
        /\ result.kind = "dict"
        /\ result.message.text \in
              {"Text extracted", "No text detected", "No valid text found", "OCR failed: "}

\* C24: run_paddle_ocr never raises, and its result is a success with a
\* non-empty list of lines exactly when the engine ran, nothing raised and
\* a region survived the size filter; otherwise a failure with an empty
\* list, saying "OCR failed: ..." when anything raised, carrying the
\* message of the gate when the gate rejected the image, "No text detected"
\* when the engine returned no region and "No valid text found" when every
\* region was filtered out.
C24_ResultShapes ==
    pc = "done" =>
        /\ result.kind = "dict"
        /\ \/ /\ exc # ""
              /\ ~result.success /\ paddle_lines = <<>>
              /\ result.message.text = "OCR failed: "
           \/ /\ exc = "" /\ ~verdict.valid
              /\ ~result.success /\ paddle_lines = <<>>
              /\ result.message = verdict.msg /\ ocr_calls = 0
           \/ /\ exc = "" /\ verdict.valid /\ ocr_calls = 1 /\ results = <<>>
              /\ ~result.success /\ paddle_lines = <<>>
              /\ result.message = Msg("No text detected")
           \/ /\ exc = "" /\ verdict.valid /\ ocr_calls = 1 /\ results # <<>>
              /\ \A i \in DOMAIN results : ~Survives(i)
              /\ ~result.success /\ paddle_lines = <<>>
              /\ result.message = Msg("No valid text found")
           \/ /\ exc = "" /\ verdict.valid /\ ocr_calls = 1
              /\ \E i \in DOMAIN results : Survives(i)
              /\ result.success /\ paddle_lines # <<>>
              /\ result.message = Msg("Text extracted")

C24_Witness ==
    /\ pc = "done" /\ result.success
    /\ Len(results) = 2 /\ Len(paddle_lines) = 1


\* the extent in pixels of detection i on axis k (1 = x, 2 = y), from the
\* truncated least and greatest coordinate of its four points
Extent(i, k) ==
    LET cs == {results[i].box[n][k] : n \in 1..4}
    IN  (Greatest(cs) \div 2) - (Least(cs) \div 2)

\* the crop of detection i is not empty and at least 5 high and 5 wide
BoxKept(i) == Extent(i, 1) >= 5 /\ Extent(i, 2) >= 5

\* the number of detections before i that are kept
KeptBefore(i) == Cardinality({j \in 1..(i - 1) : BoxKept(j)})

C26_PolarityCorrection ==
    (pc = "deskew" /\ img.binarized) =>
        /\ img.ch = 0
        /\ img.black + img.white = img.h * img.w
        /\ img.black <= img.white
        /\ LET thresh_black == IF img.inverted THEN img.white ELSE img.black
               thresh_white == IF img.inverted THEN img.black ELSE img.white
           IN  img.inverted <=> (thresh_black > thresh_white)

C26_Witness ==
    /\ pc = "deskew" /\ img.binarized
    /\ img.black = img.white /\ ~img.inverted


\* C27: with use_deskew set, the image that is rotated and handed to the
\* primary engine is the original, not yet binarized image, rotated about
\* its centre by the negative of the median contour angle; with no contour
\* angle the image is passed on unrotated.
C27_DeskewTurnsOriginalBack ==
    (pc = "normalized" /\ validated # img /\ opts.use_deskew) =>
        /\ ~ocr_input.binarized
        /\ ocr_input.warped => ocr_input.angle2 = 0 - ocr_input.median2


\* a text has no empty line and no two equal lines
DistinctLines(text) ==
    LET ls == splitlines(text)
    IN  /\ \A i \in DOMAIN ls : ls[i] # <<>>
        /\ \A i, j \in DOMAIN ls : i # j => ls[i] # ls[j]

\* the index of the first line of ls that is l once trimmed
FirstAt(ls, l) == Least({i \in DOMAIN ls : strip(ls[i]) = l})

\* C28: the text returned by a successful image extraction, and the text
\* stored in the cache, has no empty line and no two equal lines: it holds
\* each distinct trimmed line of the reconciled text once, in the order of
\* first occurrence.
C28_FirstOccurrencesOnly ==
    /\ \A k \in DOMAIN ocr_cache : DistinctLines(ocr_cache[k])
    /\ (pc = "done" /\ result.success) =>
          /\ DistinctLines(result.text)
          /\ ocr_calls = 1 =>
                LET inp == splitlines(tesseract_text)
                    out == splitlines(result.text)
                IN  /\ {out[i] : i \in DOMAIN out} =
                          {strip(inp[i]) : i \in DOMAIN inp} \ {<<>>}
                    /\ \A i, j \in DOMAIN out :
                          i < j => FirstAt(inp, out[i]) < FirstAt(inp, out[j])

C28_Witness ==
    /\ pc = "done" /\ result.success /\ ocr_calls = 1
    /\ tesseract_text = <<"a", NL, "a">>
    /\ result.text = T_a
    /\ ocr_cache[image_hash] = T_a


\* C29: an image extraction reports success only with a non-empty text, and
\* no cache entry ever holds the empty string.
C29_SuccessHasText ==
    /\ (pc = "done" /\ result.success) => result.text # <<>>
    /\ \A k \in DOMAIN ocr_cache : ocr_cache[k] # <<>>


\* a returned line is not empty and has no white space at either end
CleanOutput(lines) == \A i \in DOMAIN lines : lines[i] # <<>> /\ strip(lines[i]) = lines[i]

\* a line on which a rule of postprocess_text still has something to replace
RuleApplies(line) ==
    Contains(line, S_I1em) \/ Contains(line, S_DollarSpace) \/ Contains(line, S_SpaceDashSpace)

\* C30 as stated: postprocess_text(postprocess_text(lines)) equals
\* postprocess_text(lines) for every list of lines, and every output line
\* is non-empty without leading or trailing white space.
C30_PostprocessIdempotent ==
    /\ \A k \in DOMAIN passes : CleanOutput(passes[k])
    /\ Len(passes) = 2 => passes[2] = passes[1]

\* C30 as amended: every line postprocess_text returns is non-empty without
\* leading or trailing white space, and a second application returns the
\* same list whenever no returned line still contains "I1em", "$ " or
\* " - ".
C30_SecondPassKeepsSettledLines ==
    /\ \A k \in DOMAIN passes : CleanOutput(passes[k])
    /\ (Len(passes) = 2 /\ \A i \in DOMAIN passes[1] : ~RuleApplies(passes[1][i]))
          => passes[2] = passes[1]

C30_Witness ==
    /\ Len(passes) = 2
    /\ merged_lines = <<T_a, T_I1emPrice>>
    /\ passes[1] # merged_lines
    /\ \A i \in DOMAIN passes[1] : ~RuleApplies(passes[1][i])
    /\ passes[2] = passes[1]

====
